---- MODULE Spec2Model ----
(***************************************************************************)
(* TTkFileTreeWidget (TermTk/TTkWidgets/TTkModelView/filetreewidget.py):   *)
(* a tree widget populated from the filesystem, with lazy expansion of     *)
(* directories, a name filter, a sort key and activation signals.          *)
(*                                                                         *)
(* The filesystem is the environment: every os.* / DirEntry call of an     *)
(* operation is answered by a value the action draws with \E, and the      *)
(* answers of the last operation are kept in the variable io.              *)
(***************************************************************************)
EXTENDS Integers, Sequences, FiniteSets, TLC

VARIABLES
    path,            \* self._path
    filter,          \* self._filter
    sortingEnabled,  \* self._sortingEnabled
    sortColumn,      \* self._sortColumn
    sortOrder,       \* self._sortOrder
    items,           \* the nodes of the tree: entry path -> TTkFileTreeWidgetItem
    top,             \* self._rootItem children, in display order (entry paths)
    io,              \* the last operation, the filesystem's answers to it, its signals
    probe            \* input and result of a function applied on its own

vars == <<path, filter, sortingEnabled, sortColumn, sortOrder, items, top, io, probe>>

-----------------------------------------------------------------------------
(* Bounds of the model *)

MaxNodes == 3       \* a listing is answered only while the tree stays this small
SizeSpread == 6     \* sizes sampled this far on both sides of each threshold
MaxSiblings == 3    \* siblings sorted together, with stems 1..MaxSiblings

-----------------------------------------------------------------------------
(* Strings of the program.  A formatted string is a record of its parts.    *)

KiB == 1024
MiB == 1024 * 1024
GiB == 1024 * 1024 * 1024

DIR == "DIR"
FILE == "FILE"
AscendingOrder == "AscendingOrder"
DescendingOrder == "DescendingOrder"
ShowIndicator == "ShowIndicator"
DontShowIndicator == "DontShowIndicator"

\* the Python string ""
EmptyStr == [unit |-> "", digits |-> 0]

\* f"{fsize} B"
BytesStr(fsize) == [unit |-> "B", digits |-> fsize]

\* fsize*100/unit rounded to the nearest integer, ties to even: the two
\* decimals "%.2f" prints of the exactly representable quotient fsize/unit.
\* The product is formed in two halves so that it stays below 2^31.
Hundredths(fsize, unit) ==
    LET whole == fsize \div unit
        rem   == fsize % unit
        half  == 32768
        rh    == rem \div half
        rl    == rem % half
        a     == (rh * 100) \div half
        b     == (rh * 100) % half
        \* rem*100 = a*half*half + b*half + rl*100
        low   == b * half + rl * 100
        big   == unit = half * half
        q     == IF big THEN a + (low \div unit) ELSE (rem * 100) \div unit
        r     == IF big THEN low % unit ELSE (rem * 100) % unit
        up    == (2 * r > unit) \/ (2 * r = unit /\ q % 2 = 1)
    IN  whole * 100 + q + (IF up THEN 1 ELSE 0)

\* f"{fsize/unit:.2f} <name>"
ScaledStr(fsize, unit, name) == [unit |-> name, digits |-> Hundredths(fsize, unit)]

\* _getSize, with the comparison of line 213 turned into >=
_getSize_GeKiB(fsize) ==
    IF fsize <= 0 THEN EmptyStr
    ELSE IF fsize > GiB THEN ScaledStr(fsize, GiB, "GB")
    ELSE IF fsize > MiB THEN ScaledStr(fsize, MiB, "MB")
    ELSE IF fsize >= KiB THEN ScaledStr(fsize, KiB, "KB")
    ELSE BytesStr(fsize)

_getSize(fsize) ==
    IF fsize <= 0 THEN EmptyStr
    ELSE IF fsize > GiB THEN ScaledStr(fsize, GiB, "GB")
    ELSE IF fsize > MiB THEN ScaledStr(fsize, MiB, "MB")
    ELSE IF fsize > KiB THEN ScaledStr(fsize, KiB, "KB")
    ELSE BytesStr(fsize)

\* the Python string "" as a time
EmptyTime == [fmt |-> "", t |-> 0]

_getTime(mtime) ==
    IF mtime = 0 THEN EmptyTime
    ELSE [fmt |-> "%Y-%m-%d %H:%M:%S", t |-> mtime]

-----------------------------------------------------------------------------
(* Names and paths.  A file name is a stem and an extension (0: none); a    *)
(* path is a sequence of names, absolute or relative to the working         *)
(* directory.                                                               *)

NoExt == 0

\* the working directory of the process
Cwd == [abs |-> TRUE, parts |-> <<>>]

\* os.path.abspath
abspath(p) == IF p.abs THEN p ELSE [abs |-> TRUE, parts |-> Cwd.parts \o p.parts]

\* entry.path of an entry of os.scandir(dirpath)
EntryPath(dirpath, name) == [abs |-> dirpath.abs, parts |-> Append(dirpath.parts, name)]

\* os.path.splitext(entry.name)[1] followed by ext.lstrip(".")
splitext(name) == name.ext

\* the extensions names carry: none, and one extension
Exts == {0, 1}

\* the order of Python strings on names: by stem, then by extension
StrOrd(name) == name.stem * (Cardinality(Exts) + 1) + name.ext

-----------------------------------------------------------------------------
(* _getFileItems._getItem.  entry is a DirEntry together with the answers   *)
(* of its methods: statOk (entry.stat() returned), is_dir, is_file,         *)
(* is_symlink, and the st_size, st_mtime and execute bits of the stat.      *)

Unbound == "<unbound>"
NoFilter == "<unprocessed>"

\* the local variables of _getItem before any assignment
Locals0 ==
    [time |-> Unbound, size |-> Unbound, rawTime |-> Unbound, rawSize |-> Unbound,
     color |-> Unbound, name |-> Unbound, typef |-> Unbound, ext |-> Unbound,
     item_type |-> Unbound, item_indicator |-> Unbound]

\* TTkString()+color+text, with a trailing os.sep and a " -> target" part
NameStr(color, text, sep, link) == [color |-> color, text |-> text, sep |-> sep, link |-> link]

\* lines 228-233: the except branch of entry.stat()
AfterStat(entry) ==
    IF entry.statOk THEN Locals0
    ELSE [Locals0 EXCEPT !.time = EmptyTime, !.size = EmptyStr, !.rawTime = 0, !.rawSize = 0,
                         !.color = "failNameColor",
                         !.name = NameStr("failNameColor", entry.name, FALSE, FALSE),
                         !.typef = "Broken"]

\* lines 235-250
DirBranch(entry, l) ==
    LET rawTime == IF entry.statOk THEN entry.st_mtime ELSE 0
    IN  [l EXCEPT !.rawTime = rawTime, !.time = _getTime(rawTime),
                  !.rawSize = -1, !.size = EmptyStr,
                  !.color = "folderNameColor",
                  !.item_type = DIR, !.item_indicator = ShowIndicator,
                  !.ext = NoExt,
                  !.name = IF entry.is_symlink
                           THEN NameStr("linkNameColor", entry.name, TRUE, TRUE)
                           ELSE NameStr("folderNameColor", entry.name, TRUE, FALSE),
                  !.typef = IF entry.is_symlink THEN "Folder Link" ELSE "Folder"]

\* lines 252-274, reached with st bound to a stat result
FileBranch(entry, l) ==
    LET rawTime == entry.st_mtime
        rawSize == entry.st_size
        color   == IF entry.st_exec THEN "executableColor" ELSE "fileNameColor"
        typef   == IF entry.st_exec THEN "File (Exec)" ELSE "File"
        linked  == IF entry.st_exec THEN "File (Exec) Link" ELSE "File Link"   \* typef += " Link"
    IN  [l EXCEPT !.rawTime = rawTime, !.time = _getTime(rawTime),
                  !.rawSize = rawSize, !.size = _getSize(rawSize),
                  !.item_type = FILE, !.item_indicator = DontShowIndicator,
                  !.ext = splitext(entry.name),
                  !.color = color,
                  !.typef = IF entry.is_symlink THEN linked ELSE typef,
                  !.name = IF entry.is_symlink
                           THEN NameStr("linkNameColor", entry.name, FALSE, TRUE)
                           ELSE NameStr(color, entry.name, FALSE, FALSE)]

\* lines 276-280
ElseBranch(entry, l) ==
    [l EXCEPT !.time = EmptyTime, !.size = EmptyStr, !.rawTime = 0, !.rawSize = 0,
              !.color = "failNameColor",
              !.name = NameStr("failNameColor", entry.name, FALSE, FALSE),
              !.typef = "Invalid", !.ext = NoExt]

Raise(exc) == [exc |-> exc, item |-> <<>>]

\* lines 282-287: TTkFileTreeWidgetItem(...); reading a local that was never
\* assigned raises UnboundLocalError
NewItem(dirpath, entry, l) ==
    IF l.item_type = Unbound \/ l.item_indicator = Unbound
    THEN Raise("UnboundLocalError")
    ELSE [exc |-> "none",
          item |-> [data |-> [name |-> l.name, size |-> l.size, typef |-> l.typef, time |-> l.time],
                    raw |-> [name |-> entry.name, size |-> l.rawSize, ext |-> l.ext, time |-> l.rawTime],
                    path |-> EntryPath(dirpath, entry.name),
                    type |-> l.item_type,
                    childIndicatorPolicy |-> l.item_indicator,
                    children |-> <<>>,
                    filt |-> NoFilter]]

_getItem(dirpath, entry) ==
    LET l == AfterStat(entry)
    IN  IF entry.is_dir THEN NewItem(dirpath, entry, DirBranch(entry, l))
        ELSE IF entry.is_file
             THEN IF ~entry.statOk
                  THEN Raise("AttributeError")   \* line 263: st is None, st.st_mode
                  ELSE NewItem(dirpath, entry, FileBranch(entry, l))
             ELSE NewItem(dirpath, entry, ElseBranch(entry, l))

\* _getFileItems (lines 289-300) without the except clause of line 296
_getFileItems_NoExcept(p, scan) ==
    LET dirpath == abspath(p)
        res     == [i \in 1..Len(scan.entries) |-> _getItem(dirpath, scan.entries[i])]
        bad     == {i \in 1..Len(scan.entries) : res[i].exc # "none"}
        first   == CHOOSE i \in bad : \A j \in bad : i <= j
    IN  IF ~scan.ok THEN [exc |-> "OSError", ret |-> <<>>]
        ELSE IF bad # {} THEN [exc |-> res[first].exc, ret |-> <<>>]
        ELSE [exc |-> "none", ret |-> [i \in 1..Len(scan.entries) |-> res[i].item]]

\* lines 289-300.  scan is the answer of os.scandir(path): ok is FALSE when it
\* raised OSError, else entries are the DirEntry objects in the order yielded.
\* Only OSError is caught: another exception of _getItem leaves the function.
_getFileItems(p, scan) ==
    LET dirpath == abspath(p)
        res     == [i \in 1..Len(scan.entries) |-> _getItem(dirpath, scan.entries[i])]
        bad     == {i \in 1..Len(scan.entries) : res[i].exc # "none"}
        first   == CHOOSE i \in bad : \A j \in bad : i <= j
    IN  IF ~scan.ok THEN [exc |-> "none", ret |-> <<>>]
        ELSE IF bad # {} THEN [exc |-> res[first].exc, ret |-> <<>>]
        ELSE [exc |-> "none", ret |-> [i \in 1..Len(scan.entries) |-> res[i].item]]

-----------------------------------------------------------------------------
(* Sorting.  sortData and the sort routine belong to the tree widget host.   *)

\* TTkFileTreeWidgetItem.sortData(col): the raw value of the column, as a
\* number that orders it
sortData(item, col) ==
    CASE col = 0 -> StrOrd(item.raw.name)
      [] col = 1 -> item.raw.size
      [] col = 2 -> item.raw.ext
      [] col = 3 -> item.raw.time

\* Python's False < True
BoolOrd(b) == IF b THEN 1 ELSE 0

\* sortKey that puts directories first in the key whatever the order
sortKey_NoFlip(item, col, order) ==
    <<BoolOrd(item.type # DIR), sortData(item, col), sortData(item, 0)>>

\* sortKey without the name as the last component
sortKey_NoTieBreak(item, col, order) ==
    LET isDir   == item.type = DIR
        dirsTop == IF order = DescendingOrder THEN isDir ELSE ~isDir
    IN  <<BoolOrd(dirsTop), sortData(item, col), 0>>

\* sortKey (lines 169-177), col and order being self._sortColumn and
\* self._sortOrder
sortKey(item, col, order) ==
    LET isDir   == item.type = DIR
        dirsTop == IF order = DescendingOrder THEN isDir ELSE ~isDir
    IN  <<BoolOrd(dirsTop), sortData(item, col), sortData(item, 0)>>

\* the order of Python tuples
KeyLess(a, b) ==
    \/ a[1] < b[1]
    \/ a[1] = b[1] /\ a[2] < b[2]
    \/ a[1] = b[1] /\ a[2] = b[2] /\ a[3] < b[3]

Reverse(s) == [i \in 1..Len(s) |-> s[Len(s) + 1 - i]]

\* x put into the ascending sequence s behind every element not above it
RECURSIVE Insert(_, _, _, _)
Insert(x, s, col, order) ==
    IF s = <<>> THEN <<x>>
    ELSE IF KeyLess(sortKey(x, col, order), sortKey(Head(s), col, order))
         THEN <<x>> \o s
         ELSE <<Head(s)>> \o Insert(x, Tail(s), col, order)

RECURSIVE Ascending(_, _, _)
Ascending(s, col, order) ==
    IF s = <<>> THEN <<>>
    ELSE Insert(s[Len(s)], Ascending(SubSeq(s, 1, Len(s) - 1), col, order), col, order)

\* the host's sort of a list of siblings with key=self.sortKey: ascending by
\* the key, the whole order reversed when the order is descending
sortChildren(s, col, order) ==
    IF order = DescendingOrder THEN Reverse(Ascending(s, col, order))
    ELSE Ascending(s, col, order)

-----------------------------------------------------------------------------
(* The tree widget host: the nodes it holds and the operations on them.      *)

Range(s) == {s[i] : i \in 1..Len(s)}

\* F(e), with e evaluated once
With(e, F(_)) == CHOOSE y \in {F(x) : x \in {e}} : TRUE

\* the nodes of a list of new items, by path
ItemsOf(ret) == [k \in {x.path : x \in Range(ret)} |-> CHOOSE x \in Range(ret) : x.path = k]

PathsOf(ret) == [i \in 1..Len(ret) |-> ret[i].path]

\* TTkFileTreeWidgetItem._processFilter(filter) on a node without children
_processFilter(item, f) == [item EXCEPT !.filt = f]

\* TTkFileTreeWidgetItem.setFilter(self._rootItem, filter): every node of the tree
ItemSetFilter(its, f) == [k \in DOMAIN its |-> _processFilter(its[k], f)]

\* a list of sibling paths, sorted as sortChildren sorts their nodes
SortPaths(seq, its, col, order) ==
    PathsOf(sortChildren([i \in 1..Len(seq) |-> its[seq[i]]], col, order))

\* the widget's fields as one value
Self ==
    [path |-> path, filter |-> filter, sortingEnabled |-> sortingEnabled,
     sortColumn |-> sortColumn, sortOrder |-> sortOrder, items |-> items, top |-> top]

\* TTkTreeWidget.sortItems(col, order): nothing while sorting is disabled, else
\* the column and order are stored and every list of siblings is sorted
sortItems(w, col, order) ==
    IF ~w.sortingEnabled THEN w
    ELSE [w EXCEPT !.sortColumn = col, !.sortOrder = order,
                   !.top = SortPaths(w.top, w.items, col, order),
                   !.items = [k \in DOMAIN w.items |->
                                [w.items[k] EXCEPT !.children =
                                    SortPaths(w.items[k].children, w.items, col, order)]]]

-----------------------------------------------------------------------------
(* The methods of TTkFileTreeWidget, each from the widget's fields w and the *)
(* filesystem's answers to the widget after the call, with what was raised   *)
(* and whether a directory was listed.                                       *)

Outcome(w, raised, listed) == [w |-> w, raised |-> raised, listed |-> listed]

\* setFilter (lines 179-182)
setFilter(w, f) ==
    [w EXCEPT !.filter = f, !.items = ItemSetFilter(w.items, f)]

\* lines 189-195: the path is recorded, sorting disabled, the tree cleared
Cleared(w, p) ==
    [w EXCEPT !.path = p, !.sortingEnabled = FALSE, !.items = ItemsOf(<<>>), !.top = <<>>]

\* lines 196-200 on the cleared widget c, ret being the items of line 196 and
\* isSorted the flag saved at line 192
Rebuilt(c, ret, isSorted) ==
    With(setFilter([c EXCEPT !.items = ItemsOf(ret), !.top = PathsOf(ret)], c.filter),
         LAMBDA f : sortItems([f EXCEPT !.sortingEnabled = isSorted], c.sortColumn, c.sortOrder))

\* openPath (lines 187-200) without the os.path.exists test of line 188
openPath_NoExistsTest(w, p, exists, scan) ==
    With(_getFileItems(p, scan),
         LAMBDA r : IF r.exc # "none" THEN Outcome(Cleared(w, p), r.exc, TRUE)
                    ELSE Outcome(Rebuilt(Cleared(w, p), r.ret, w.sortingEnabled), "none", TRUE))

\* openPath (lines 187-200).  exists answers os.path.exists(path), scan answers
\* the os.scandir of _getFileItems.
openPath(w, p, exists, scan) ==
    IF ~exists THEN Outcome(w, "none", FALSE)
    ELSE With(_getFileItems(p, scan),
              LAMBDA r : IF r.exc # "none" THEN Outcome(Cleared(w, p), r.exc, TRUE)
                         ELSE Outcome(Rebuilt(Cleared(w, p), r.ret, w.sortingEnabled),
                                      "none", TRUE))

\* the children of lines 306-308, left unprocessed
ProcessChildren_Skipped(children, f) == children

\* lines 306-308: i._processFilter(self._filter) for every new child
ProcessChildren(children, f) == [i \in 1..Len(children) |-> _processFilter(children[i], f)]

\* line 305: item.addChildren(children) for the node at path n
addChildren(its, n, children) ==
    [k \in DOMAIN its \cup Range(PathsOf(children)) |->
        IF k \in Range(PathsOf(children)) THEN ItemsOf(children)[k]
        ELSE IF k = n THEN [its[k] EXCEPT !.children = PathsOf(children)]
        ELSE its[k]]

\* line 310: item.sortChildren(col, order, key=self.sortKey) for the node at n
SortNode(its, n, col, order) ==
    [its EXCEPT ![n].children = SortPaths(its[n].children, its, col, order)]

\* lines 305-310 of _updateChildren, ret being the items _getFileItems returned
Attached(w, n, ret) ==
    With(addChildren(w.items, n, ProcessChildren(ret, w.filter)),
         LAMBDA its : IF ~w.sortingEnabled THEN [w EXCEPT !.items = its]
                      ELSE [w EXCEPT !.items = SortNode(its, n, w.sortColumn, w.sortOrder)])

\* _updateChildren (lines 302-310) for the node at path n
_updateChildren(w, n, scan) ==
    IF w.items[n].children # <<>> THEN Outcome(w, "none", FALSE)
    ELSE With(_getFileItems(w.items[n].path, scan),
              LAMBDA r : IF r.exc # "none" THEN Outcome(w, r.exc, TRUE)
                         ELSE Outcome(Attached(w, n, r.ret), "none", TRUE))

\* a signal emitted with its argument
Emit(signal, item) == [signal |-> signal, item |-> item]

\* _activated that decides by the type the node got when it was listed
_activated_ByType(w, n, kind) ==
    IF w.items[n].type = DIR THEN <<Emit("folderActivated", w.items[n].path)>>
    ELSE <<Emit("fileActivated", w.items[n].path)>>

\* _activated (lines 312-318).  kind answers os.path.isdir and os.path.isfile
\* of the node's path: "dir", "file" or "other".
_activated(w, n, kind) ==
    IF kind = "dir" THEN <<Emit("folderActivated", w.items[n].path)>>
    ELSE IF kind = "file" THEN <<Emit("fileActivated", w.items[n].path)>>
    ELSE <<>>

-----------------------------------------------------------------------------
(* The environment: the paths the caller opens and the answers of the        *)
(* filesystem.                                                               *)

Name(stem) == [stem |-> stem, ext |-> stem % 2]

\* the names of the entries of a directory
Names == {Name(1), Name(2)}

\* "." and an absolute directory
OpenPaths == {[abs |-> FALSE, parts |-> <<>>], [abs |-> TRUE, parts |-> <<Name(1)>>]}

Filters == {"*", "*.txt"}

NoPath == [abs |-> FALSE, parts |-> <<>>]

Entry(name, statOk, is_dir, is_file, is_symlink, st_size, st_mtime, st_exec) ==
    [name |-> name, statOk |-> statOk, is_dir |-> is_dir, is_file |-> is_file,
     is_symlink |-> is_symlink, st_size |-> st_size, st_mtime |-> st_mtime,
     st_exec |-> st_exec]

\* the entries a directory may hold: directories, regular files, and a
\* dangling symlink (its stat fails, it is neither a directory nor a file)
Entries ==
    {Entry(n, TRUE, TRUE, FALSE, FALSE, 4096, 1, TRUE) : n \in Names}
    \cup {Entry(n, TRUE, FALSE, TRUE, FALSE, 2048, 1, FALSE) : n \in Names}
    \cup {Entry(Name(1), FALSE, FALSE, FALSE, TRUE, 0, 0, FALSE)}

NoScan == [ok |-> FALSE, entries |-> <<>>]

\* the entries S in the order the directory yields them
Listing(S) ==
    CHOOSE f \in [1..Cardinality(S) -> S] :
        \A i, j \in DOMAIN f : i < j => f[i].name.stem > f[j].name.stem

\* the answers of os.scandir with at most room entries: OSError, or entries
\* of distinct names
Scans(room) ==
    {NoScan} \cup
    {[ok |-> TRUE, entries |-> Listing(S)] :
        S \in {T \in SUBSET Entries :
                  /\ Cardinality(T) <= room
                  /\ \A a, b \in T : a # b => a.name # b.name}}

NoProbe == [kind |-> "none"]

\* what the last operation was, what the filesystem answered and what it did
Io(op, p, node, exists, scan, listed, raised, emitted, kind) ==
    [op |-> op, p |-> p, node |-> node, exists |-> exists, scan |-> scan,
     listed |-> listed, raised |-> raised, emitted |-> emitted, kind |-> kind]

\* the widget's fields take the values of w
Becomes(w) ==
    /\ path' = w.path
    /\ filter' = w.filter
    /\ sortingEnabled' = w.sortingEnabled
    /\ sortColumn' = w.sortColumn
    /\ sortOrder' = w.sortOrder
    /\ items' = w.items
    /\ top' = w.top

\* __init__ (lines 139-167) up to the openPath of line 161
Constructed(p) ==
    [path |-> p, filter |-> "*", sortingEnabled |-> TRUE, sortColumn |-> 0,
     sortOrder |-> AscendingOrder, items |-> ItemsOf(<<>>), top |-> <<>>]

\* the widget after a construction that raised nothing
Init ==
    \E p \in OpenPaths, exists \in BOOLEAN :
      \E scan \in IF exists THEN Scans(MaxNodes) ELSE {NoScan} :
        \E r \in {openPath(Constructed(p), p, exists, scan)} :
            /\ r.raised = "none"
            /\ path = r.w.path
            /\ filter = r.w.filter
            /\ sortingEnabled = r.w.sortingEnabled
            /\ sortColumn = r.w.sortColumn
            /\ sortOrder = r.w.sortOrder
            /\ items = r.w.items
            /\ top = r.w.top
            /\ io = Io("init", p, NoPath, exists, scan, r.listed, "none", <<>>, "")
            /\ probe = NoProbe

\* a call of openPath(p)
OpenPath(p) ==
    \E exists \in BOOLEAN :
      \E scan \in IF exists THEN Scans(MaxNodes) ELSE {NoScan} :
        \E r \in {openPath(Self, p, exists, scan)} :
            /\ Becomes(r.w)
            /\ io' = Io("openPath", p, NoPath, exists, scan, r.listed, r.raised, <<>>, "")
            /\ UNCHANGED probe

\* the itemExpanded signal for the node at n, connected to _updateChildren
\* (line 166); the host offers the expansion of nodes that show the indicator
Expand(n) ==
    /\ items[n].childIndicatorPolicy = ShowIndicator
    /\ \E scan \in IF items[n].children = <<>>
                   THEN Scans(MaxNodes - Cardinality(DOMAIN items)) ELSE {NoScan} :
         \E r \in {_updateChildren(Self, n, scan)} :
             /\ Becomes(r.w)
             /\ io' = Io("expand", NoPath, n, TRUE, scan, r.listed, r.raised, <<>>, "")
             /\ UNCHANGED probe

\* a call of setFilter(f)
SetFilter(f) ==
    /\ \E w \in {setFilter(Self, f)} : Becomes(w)
    /\ io' = Io("setFilter", NoPath, NoPath, TRUE, NoScan, FALSE, "none", <<>>, f)
    /\ UNCHANGED probe

\* the itemActivated signal for the node at n, connected to _activated (line 167)
Activate(n) ==
    \E kind \in {"dir", "file", "other"} :
      /\ io' = Io("activate", NoPath, n, TRUE, NoScan, FALSE, "none",
                  _activated(Self, n, kind), kind)
      /\ UNCHANGED <<path, filter, sortingEnabled, sortColumn, sortOrder, items, top, probe>>

\* a call of the host's setSortingEnabled(b)
SetSortingEnabled(b) ==
    /\ sortingEnabled' = b
    /\ io' = Io("setSortingEnabled", NoPath, NoPath, TRUE, NoScan, FALSE, "none", <<>>, "")
    /\ UNCHANGED <<path, filter, sortColumn, sortOrder, items, top, probe>>

Next ==
    \/ \E p \in OpenPaths : OpenPath(p)
    \/ \E n \in DOMAIN items : Expand(n)
    \/ \E f \in Filters : SetFilter(f)
    \/ \E b \in BOOLEAN : SetSortingEnabled(b)

Spec == Init /\ [][Next]_vars

\* the widget opened, expanded and activated
NextActivation ==
    \/ \E p \in OpenPaths : OpenPath(p)
    \/ \E n \in DOMAIN items : Expand(n)
    \/ \E n \in DOMAIN items : Activate(n)

SpecActivation == Init /\ [][NextActivation]_vars

-----------------------------------------------------------------------------
(* _getSize and _getItem applied to one size and one entry.                  *)

\* a widget that is not operated
Idle ==
    /\ path = NoPath
    /\ filter = "*"
    /\ sortingEnabled = TRUE
    /\ items = ItemsOf(<<>>)
    /\ top = <<>>
    /\ io = Io("none", NoPath, NoPath, TRUE, NoScan, FALSE, "none", <<>>, "")

\* sizes around every threshold of _getSize, and sizes inside each range
SizeSamples ==
    {t + d : t \in {0, KiB, MiB, GiB}, d \in (0 - SizeSpread)..SizeSpread}
    \cup {512, 2048, 5 * MiB, GiB + 512 * MiB}

InitSize ==
    /\ Idle
    /\ sortColumn = 0
    /\ sortOrder = AscendingOrder
    /\ \E fsize \in SizeSamples, is_dir \in BOOLEAN, is_symlink \in BOOLEAN, st_exec \in BOOLEAN :
         probe = [kind |-> "size", pc |-> "start", fsize |-> fsize, is_dir |-> is_dir,
                  is_symlink |-> is_symlink, st_exec |-> st_exec,
                  out |-> EmptyStr, res |-> Raise("none")]

\* _getSize(fsize)
GetSize ==
    /\ probe.pc = "start"
    /\ probe' = [probe EXCEPT !.pc = "size", !.out = _getSize(probe.fsize)]
    /\ UNCHANGED <<path, filter, sortingEnabled, sortColumn, sortOrder, items, top, io>>

\* _getItem(entry) for an entry whose stat returns st_size = fsize
GetItem ==
    /\ probe.pc = "start"
    /\ probe.fsize >= 0
    /\ probe' = [probe EXCEPT !.pc = "item",
                   !.res = _getItem(Cwd, Entry(Name(1), TRUE, probe.is_dir, ~probe.is_dir,
                                               probe.is_symlink, probe.fsize, 1, probe.st_exec))]
    /\ UNCHANGED <<path, filter, sortingEnabled, sortColumn, sortOrder, items, top, io>>

NextSize == GetSize \/ GetItem

SpecSize == InitSize /\ [][NextSize]_vars

-----------------------------------------------------------------------------
(* sortChildren with key=self.sortKey applied to one list of siblings, for   *)
(* every sort column and order.                                              *)

\* the entries that become the siblings: a directory, and files of two sizes
\* and two times, per name
SortEntries ==
    {Entry(Name(s), TRUE, TRUE, FALSE, FALSE, 4096, 1, TRUE) : s \in 1..MaxSiblings}
    \cup {Entry(Name(s), TRUE, FALSE, TRUE, FALSE, z, t, FALSE) :
             s \in 1..MaxSiblings, z \in {0, 1}, t \in {0, 1}}

\* the answers of os.scandir: entries of distinct names in any order
SortScans ==
    {[ok |-> TRUE, entries |-> es] :
        es \in {f \in UNION {[1..k -> SortEntries] : k \in 0..MaxSiblings} :
                   \A i, j \in DOMAIN f : i # j => f[i].name # f[j].name}}

InitSort ==
    /\ Idle
    /\ sortColumn \in 0..3
    /\ sortOrder \in {AscendingOrder, DescendingOrder}
    /\ \E scan \in SortScans :
         probe = [kind |-> "sort", pc |-> "start",
                  siblings |-> _getFileItems(Cwd, scan).ret, sorted |-> <<>>]

\* item.sortChildren(self._sortColumn, self._sortOrder, key=self.sortKey)
SortSiblings ==
    /\ probe.pc = "start"
    /\ probe' = [probe EXCEPT !.pc = "sorted",
                   !.sorted = sortChildren(probe.siblings, sortColumn, sortOrder)]
    /\ UNCHANGED <<path, filter, sortingEnabled, sortColumn, sortOrder, items, top, io>>

NextSort == SortSiblings

SpecSort == InitSort /\ [][NextSort]_vars

-----------------------------------------------------------------------------
(* Properties                                                                *)

\* the directory the last operation listed
ListedDir == IF io.op = "expand" THEN io.node ELSE abspath(io.p)

\* C1: a request to expand a node that directly follows a completed request
\* to expand the same node lists no directory and leaves every node, the
\* node's children among them, as it was.
C1_SecondExpandIsNoOp ==
    [][(io.op = "expand" /\ io.raised = "none" /\ io'.op = "expand" /\ io'.node = io.node)
          => (~io'.listed /\ items' = items)]_vars

\* C2: openPath with a path that does not exist raises nothing and leaves the
\* recorded path, every node, the top level, the filter and the
\* sorting-enabled flag as they were.
C2_OpenMissingPathIsNoOp ==
    [][(io'.op = "openPath" /\ ~io'.exists)
          => /\ io'.raised = "none"
             /\ ~io'.listed
             /\ UNCHANGED <<path, items, top, filter, sortingEnabled>>]_vars

\* C2 witness: a missing path, other than the recorded one, was opened on a
\* tree with an expanded node and a filter other than the initial one
C2_Witness ==
    /\ io.op = "openPath" /\ ~io.exists /\ io.p # path
    /\ filter # "*"
    /\ \E n \in DOMAIN items : items[n].children # <<>>

\* C3: after a listing, nothing was raised, every entry has its node, and
\* the node of an entry whose stat failed is "Broken" with empty size and
\* time and raw size and time 0.
C3_StatFailureListedBroken ==
    (io.op \in {"openPath", "expand"} /\ io.listed /\ io.scan.ok)
       => /\ io.raised = "none"
          /\ \A i \in 1..Len(io.scan.entries) :
               LET e == io.scan.entries[i]
                   k == EntryPath(ListedDir, e.name)
               IN  /\ k \in DOMAIN items
                   /\ ~e.statOk =>
                        /\ items[k].data.typef = "Broken"
                        /\ items[k].data.size = EmptyStr
                        /\ items[k].data.time = EmptyTime
                        /\ items[k].raw.size = 0
                        /\ items[k].raw.time = 0

\* C4: every node of the tree was last processed with the stored filter;
\* setFilter stores its pattern, processes every node with it, lists no
\* directory and neither adds, removes nor moves a node.
C4_FilterOnEveryNode ==
    /\ [](\A n \in DOMAIN items : items[n].filt = filter)
    /\ [][io'.op = "setFilter"
             => /\ filter' = io'.kind
                /\ ~io'.listed
                /\ DOMAIN items' = DOMAIN items
                /\ top' = top
                /\ \A n \in DOMAIN items :
                     /\ items'[n].children = items[n].children
                     /\ items'[n].filt = io'.kind]_vars

\* C4 witness: under a filter other than the initial one, the child of a
\* top-level node was expanded and got children
C4_Witness ==
    /\ io.op = "expand" /\ io.listed /\ io.raised = "none"
    /\ Len(io.node.parts) = 2
    /\ items[io.node].children # <<>>
    /\ filter = "*.txt"
    /\ Cardinality(DOMAIN items) >= 3

Tied(i, j) ==
    /\ i < j
    /\ (probe.sorted[i].type = DIR) = (probe.sorted[j].type = DIR)
    /\ sortData(probe.sorted[i], sortColumn) = sortData(probe.sorted[j], sortColumn)

\* C6 as stated: siblings of one group that tie in the sort column stand in
\* ascending order of their raw names, in both orders.
C6_TiesByNameAscending ==
    probe.pc = "sorted"
       => \A i, j \in 1..Len(probe.sorted) :
             Tied(i, j) => sortData(probe.sorted[i], 0) < sortData(probe.sorted[j], 0)

\* C6 amended: siblings of one group that tie in the sort column stand in
\* ascending order of their raw names when the order is ascending, and in
\* descending order of their raw names when the order is descending.
C6_TiesByNameInSortOrder ==
    probe.pc = "sorted"
       => \A i, j \in 1..Len(probe.sorted) :
             Tied(i, j) =>
                IF sortOrder = DescendingOrder
                THEN sortData(probe.sorted[i], 0) > sortData(probe.sorted[j], 0)
                ELSE sortData(probe.sorted[i], 0) < sortData(probe.sorted[j], 0)

\* C6 witness: two files of one size were sorted by size, descending
C6_Witness ==
    /\ probe.pc = "sorted" /\ sortOrder = DescendingOrder /\ sortColumn = 1
    /\ \E i, j \in 1..Len(probe.sorted) : Tied(i, j) /\ probe.sorted[i].type = FILE

\* C7: an activation emits folderActivated once, with the node, when the path
\* is a directory, fileActivated once when it is a regular file, nothing
\* when it is neither, and changes no node, nor the path, nor the filter.
C7_ActivationByFilesystem ==
    [][io'.op = "activate"
          => /\ Len(io'.emitted) <= 1
             /\ io'.kind = "dir" => io'.emitted = <<Emit("folderActivated", io'.node)>>
             /\ io'.kind = "file" => io'.emitted = <<Emit("fileActivated", io'.node)>>
             /\ io'.kind = "other" => io'.emitted = <<>>
             /\ UNCHANGED <<items, top, path, filter>>]_vars

\* C7 witness: a node listed as a directory was activated when its path was a
\* regular file
C7_Witness ==
    /\ io.op = "activate" /\ io.kind = "file"
    /\ items[io.node].type = DIR
    /\ io.emitted # <<>>

\* C8: a listing whose os.scandir fails raises nothing; openPath then leaves
\* an empty tree, and an expansion leaves the node without children and
\* every node, the top level, the path and the filter as they were.
C8_ListingFailureAbsorbed ==
    [][(io'.listed /\ ~io'.scan.ok)
          => /\ io'.raised = "none"
             /\ io'.op = "openPath" => (top' = <<>> /\ DOMAIN items' = {})
             /\ io'.op = "expand" =>
                  /\ items'[io'.node].children = <<>>
                  /\ UNCHANGED <<items, top, path, filter>>]_vars

\* C8 witness: the listing of an expanded node failed in a tree of several nodes
C8_Witness ==
    /\ io.op = "expand" /\ io.listed /\ ~io.scan.ok
    /\ Cardinality(DOMAIN items) >= 2

\* the size string the thresholds give for fsize
InRange(fsize, out) ==
    /\ fsize <= 0 => out = EmptyStr
    /\ (0 < fsize /\ fsize <= KiB) => out = [unit |-> "B", digits |-> fsize]
    /\ (KiB < fsize /\ fsize <= MiB) => out.unit = "KB"
    /\ (MiB < fsize /\ fsize <= GiB) => out.unit = "MB"
    /\ GiB < fsize => out.unit = "GB"
    /\ fsize = 2048 => out = [unit |-> "KB", digits |-> 200]

C10_OpenReplacesTree ==
    [][(io'.op = "openPath" /\ io'.exists)
          => /\ path' = io'.p
             /\ Len(top') = Len(io'.scan.entries)
             /\ Range(top') = {EntryPath(abspath(io'.p), e.name) : e \in Range(io'.scan.entries)}
             /\ DOMAIN items' = Range(top')
             /\ \A n \in DOMAIN items' : items'[n].children = <<>>
             /\ sortingEnabled' = sortingEnabled]_vars

====
